---- MODULE Spec2Model ----
(***************************************************************************)
(* A model of gym_super_mario_bros/smb_env.py (SuperMarioBrosEnv): the     *)
(* memory decoders, the RAM hacks and skip loops, the reward function and  *)
(* the reset/step lifecycle driven through the NESEnv hooks.               *)
(*                                                                         *)
(* A memory snapshot is a record holding the RAM bytes the class reads or  *)
(* writes:                                                                 *)
(*   ps    0x000E player state        yv    0x00B5 y viewport              *)
(*   en    0x0016..0x001A enemy types fl    0x001D float state             *)
(*   xpage 0x006D  xb 0x0086          ypix  0x03B8                         *)
(*   cat   0x06DE change-area timer   plt   0x07A0 pre-level timer         *)
(*   st    0x0756 status              life  0x075A                         *)
(*   stage 0x075C  world 0x075F  area 0x0760  mode 0x0770                  *)
(*   sc    0x07DE..0x07E3 score  co 0x07ED..0x07EE coins                   *)
(*   tm    0x07F8..0x07FA time                                             *)
(***************************************************************************)
EXTENDS Integers, Sequences, FiniteSets, TLC

VARIABLES
    ram,        \* self.ram: the emulator's memory snapshot
    target,     \* <<_target_world, _target_stage, _target_area>> or NoTarget
    time_last,  \* self._time_last
    last_x,     \* self.last_frame_x_position
    last_y,     \* self.last_frame_y_position
    done,       \* NESEnv.done
    backup,     \* the snapshot NESEnv._backup saved (NoBackup before it)
    pc,         \* the position of the running call
    ref_time,   \* the local `time` of _skip_end_of_world
    out,        \* what the running step evaluated: reward, terminated, info
    pre         \* history of the running step: the positions when step was
                \* called, its action, whether it is the first step since a
                \* reset, and _time_last as it was before the reward

vars == <<ram, target, time_last, last_x, last_y, done, backup, pc, ref_time, out, pre>>

(***************************************************************************)
(* Module constants of smb_env.py                                          *)
(***************************************************************************)
\* faulty variant: the pipe states are not counted as busy
BUSY_STATES_no_pipe == {0, 1, 4, 5, 7}

BUSY_STATES == {0, 1, 2, 3, 4, 5, 7}

ENEMY_TYPE_ADDRESSES == <<1, 2, 3, 4, 5>>

STAGE_OVER_ENEMIES == {45, 49}

DyingState == 11

DeadState == 6

GameOverLives == 255

EndOfWorldMode == 2

FlagFloatState == 3

DeathReward == -25

XRewardBound == 5

reward_range == <<-15, 15>>

NoTarget == <<>>

NoBackup == <<>>

NoOut == <<>>

(***************************************************************************)
(* Memory decoder                                                          *)
(***************************************************************************)
is_single_stage_env == target # NoTarget

\* str(b) has this many characters for a byte b
StrLen(b) == IF b < 10 THEN 1 ELSE IF b < 100 THEN 2 ELSE 3

Pow10(n) == IF n = 1 THEN 10 ELSE IF n = 2 THEN 100 ELSE 1000

\* int("".join(map(str, bytes))): the decimal representations concatenated
\* faulty variant: the lowest address is taken as the least significant digit
RECURSIVE read_mem_range_reversed(_)
read_mem_range_reversed(bytes) ==
    IF bytes = <<>> THEN 0
    ELSE LET b == bytes[1]
         IN  read_mem_range_reversed(Tail(bytes)) * Pow10(StrLen(b)) + b

RECURSIVE read_mem_range(_)
read_mem_range(bytes) ==
    IF bytes = <<>> THEN 0
    ELSE LET n == Len(bytes)
             b == bytes[n]
         IN  read_mem_range(SubSeq(bytes, 1, n - 1)) * Pow10(StrLen(b)) + b

world_of(r) == r.world + 1

stage_of(r) == r.stage + 1

area_of(r) == r.area + 1

score_of(r) == read_mem_range(r.sc)

time_of(r) == read_mem_range(r.tm)

coins_of(r) == read_mem_range(r.co)

life_of(r) == r.life

x_position(r) == r.xpage * 256 + r.xb

y_pixel(r) == r.ypix

y_viewport(r) == r.yv

\* faulty variant: below the viewport the offset of one is forgotten
y_position_no_offset(r) ==
    IF y_viewport(r) < 1 THEN 255 + (255 - y_pixel(r))
    ELSE IF y_viewport(r) > 1 THEN 0 - y_pixel(r)
    ELSE 255 - y_pixel(r)

y_position(r) ==
    IF y_viewport(r) < 1 THEN 255 + (255 - y_pixel(r))
    ELSE IF y_viewport(r) > 1 THEN (0 - y_pixel(r)) - 1
    ELSE 255 - y_pixel(r)

player_status(r) ==
    IF r.st = 0 THEN "small" ELSE IF r.st = 1 THEN "tall" ELSE "fireball"

player_state(r) == r.ps

\* faulty variant: the viewport test is left out
is_dying_state_only(r) == player_state(r) = DyingState

is_dying(r) == player_state(r) = DyingState \/ y_viewport(r) > 1

is_dead(r) == player_state(r) = DeadState

is_game_over(r) == life_of(r) = GameOverLives

is_busy(r) == player_state(r) \in BUSY_STATES

is_world_over(r) == r.mode = EndOfWorldMode

\* the first slot holding a stage-over enemy decides; none gives False
RECURSIVE stage_over_from(_, _)
stage_over_from(r, i) ==
    IF i > Len(ENEMY_TYPE_ADDRESSES) THEN FALSE
    ELSE IF r.en[ENEMY_TYPE_ADDRESSES[i]] \in STAGE_OVER_ENEMIES
         THEN r.fl = FlagFloatState
         ELSE stage_over_from(r, i + 1)

\* faulty variant: only the first enemy slot is looked at
is_stage_over_first_slot(r) ==
    r.en[ENEMY_TYPE_ADDRESSES[1]] \in STAGE_OVER_ENEMIES /\ r.fl = FlagFloatState

is_stage_over(r) == stage_over_from(r, 1)
flag_get(r) == is_world_over(r) \/ is_stage_over(r)

\* GameState: every decoded property of one snapshot
game_state(r) ==
    [world         |-> world_of(r),
     stage         |-> stage_of(r),
     area          |-> area_of(r),
     score         |-> score_of(r),
     time          |-> time_of(r),
     coins         |-> coins_of(r),
     life          |-> life_of(r),
     x_position    |-> x_position(r),
     y_position    |-> y_position(r),
     player_status |-> player_status(r),
     player_state  |-> player_state(r),
     is_dying      |-> is_dying(r),
     is_dead       |-> is_dead(r),
     is_game_over  |-> is_game_over(r),
     is_busy       |-> is_busy(r),
     is_world_over |-> is_world_over(r),
     is_stage_over |-> is_stage_over(r),
     flag_get      |-> flag_get(r)]

(***************************************************************************)
(* Reward function                                                         *)
(***************************************************************************)
\* faulty variant: the guard is off by one
x_reward_strict(r, lx) ==
    LET rew == x_position(r) - lx
    IN  IF rew <= (0 - XRewardBound) \/ rew >= XRewardBound THEN 0 ELSE rew

\* faulty variant: the difference is returned without the guard
x_reward_unguarded(r, lx) == x_position(r) - lx

x_reward(r, lx) ==
    LET rew == x_position(r) - lx
    IN  IF rew < (0 - XRewardBound) \/ rew > XRewardBound THEN 0 ELSE rew

\* the value _time_penalty returns; its side effect is time_last_after
time_penalty(r, tl) ==
    LET rew == time_of(r) - tl
    IN  IF rew > 0 THEN 0 ELSE rew

\* faulty variant: the tracker is kept when the penalty is suppressed
time_last_after_guarded(r, tl) == IF time_of(r) - tl > 0 THEN tl ELSE time_of(r)

time_last_after(r, tl) == time_of(r)

\* faulty variant: only death is punished, dying is not
death_penalty_dead_only(r) == IF is_dead(r) THEN DeathReward ELSE 0

death_penalty(r) == IF is_dying(r) \/ is_dead(r) THEN DeathReward ELSE 0

\* faulty variant: the reward is clamped to reward_range
get_reward_clamped(r, lx, tl) ==
    LET rew == x_reward(r, lx) + time_penalty(r, tl) + death_penalty(r)
    IN  IF rew < reward_range[1] THEN reward_range[1]
        ELSE IF rew > reward_range[2] THEN reward_range[2] ELSE rew

get_reward(r, lx, tl) == x_reward(r, lx) + time_penalty(r, tl) + death_penalty(r)

\* faulty variant: the mode is not looked at
get_terminated_any_mode(r) == is_dying(r) \/ is_dead(r) \/ flag_get(r)

get_terminated(r) ==
    IF is_single_stage_env
    THEN is_dying(r) \/ is_dead(r) \/ flag_get(r)
    ELSE is_game_over(r)

get_info(r, lx, ly) ==
    [coins    |-> coins_of(r),
     flag_get |-> flag_get(r),
     life     |-> life_of(r),
     score    |-> score_of(r),
     stage    |-> stage_of(r),
     status   |-> player_status(r),
     time     |-> time_of(r),
     world    |-> world_of(r),
     x_pos    |-> x_position(r),
     y_pos    |-> y_position(r),
     x_speed  |-> x_position(r) - lx,
     y_speed  |-> y_position(r) - ly]

(***************************************************************************)
(* RAM hacks                                                               *)
(***************************************************************************)
\* faulty variant: world and stage are swapped
write_stage_swapped(r) ==
    IF target # NoTarget
    THEN [r EXCEPT !.world = target[2] - 1,
                   !.stage = target[1] - 1,
                   !.area  = target[3] - 1]
    ELSE r

\* faulty variant: the one-based target is written as it is
write_stage_one_based(r) ==
    IF target # NoTarget
    THEN [r EXCEPT !.world = target[1],
                   !.stage = target[2],
                   !.area  = target[3]]
    ELSE r

\* the bytes _write_stage assigns
write_stage_addrs == {"world", "stage", "area"}

write_stage(r) ==
    IF target # NoTarget
    THEN [r EXCEPT !.world = target[1] - 1,
                   !.stage = target[2] - 1,
                   !.area  = target[3] - 1]
    ELSE r

runout_prelevel_timer_addrs == {"plt"}

runout_prelevel_timer(r) == [r EXCEPT !.plt = 0]

\* the byte _skip_change_area assigns, when it assigns one
skip_change_area_addrs(r) == IF r.cat > 1 /\ r.cat < 255 THEN {"cat"} ELSE {}

\* faulty variant: the upper end of the range is taken in
skip_change_area_closed(r) ==
    IF r.cat > 1 /\ r.cat <= 255 THEN [r EXCEPT !.cat = 1] ELSE r

skip_change_area(r) ==
    IF r.cat > 1 /\ r.cat < 255 THEN [r EXCEPT !.cat = 1] ELSE r

kill_mario_addrs == {"ps"}

\* faulty variant: the code goes to the float-state byte 0x001D
kill_mario_write_wrong_address(r) == [r EXCEPT !.fl = DeadState]

\* faulty variant: the dying code is written instead of the dead code
kill_mario_write_dying(r) == [r EXCEPT !.ps = DyingState]

\* _kill_mario up to its frame advance
kill_mario_write(r) == [r EXCEPT !.ps = DeadState]

(***************************************************************************)
(* The emulator (nes_py.NESEnv and the ROM): not part of this repository.  *)
(* frame_advance is modelled as a nondeterministic abstract game over the  *)
(* bytes above: a title screen left by pressing Start, a pre-level delay   *)
(* counted by the pre-level timer, play, pipes counted by the change-area  *)
(* timer, dying, death, the flagpole and the end of a world.               *)
(***************************************************************************)
StartButton == 8

LeftButton == 64

RightButton == 128

NoButton == 0

\* the controller bitmaps step() is called with
Actions == {NoButton, StartButton, RightButton, LeftButton}

Pressed(input, button) == (input \div button) % 2 = 1

StartX == 40

StartLives == 2

StartTime == 401

GroundYPixel == 176

XStep == 3

PreLevelDelay == 2

AreaDelay == 3

\* the values a pipe may leave in the change-area timer
AreaTimers == {1, AreaDelay, 254, 255}

\* the flagpole (or the axe of a castle) is FlagMoves moves right of the start
FlagMoves == 2

\* bounds of the abstract game
MaxMoves == 3

MaxTicks == 2

Digits3(n) == <<n \div 100, (n \div 10) % 10, n % 10>>

NoEnemies == <<0, 0, 0, 0, 0>>

\* level bytes <<0x075F, 0x075C, 0x0760>> the game moves between
Levels == {<<0, 0, 0>>, <<0, 1, 2>>, <<6, 3, 4>>, <<7, 3, 3>>}

\* TargetConfig as decode_target returns it: validated (world, stage, area)
Targets == {NoTarget, <<1, 2, 3>>, <<7, 4, 5>>, <<8, 4, 4>>}

PowerOn ==
    [ps |-> 0, yv |-> 1, en |-> NoEnemies, fl |-> 0, xpage |-> 0, xb |-> StartX,
     ypix |-> GroundYPixel, cat |-> 0, plt |-> 0, st |-> 0, life |-> StartLives,
     stage |-> 0, world |-> 0, area |-> 0, mode |-> 0,
     sc |-> <<0, 0, 0, 0, 0, 0>>, co |-> <<0, 0>>, tm |-> <<0, 0, 0>>]

SetLevel(r, l) == [r EXCEPT !.world = l[1], !.stage = l[2], !.area = l[3]]

\* a level (or a life) begins to load: busy until the pre-level timer runs out
BeginLoad(r) ==
    [r EXCEPT !.mode = 1, !.ps = 0, !.plt = PreLevelDelay, !.yv = 1,
              !.en = NoEnemies, !.fl = 0, !.cat = 0]

TitleFrames(r, input) ==
    {r, SetLevel(r, <<0, 0, 0>>)}
    \cup (IF Pressed(input, StartButton)
          THEN {[BeginLoad(r) EXCEPT !.life = StartLives]}
          ELSE {})

BusyFrames(r) ==
    IF r.cat > 1 /\ r.cat < 255 THEN {[r EXCEPT !.cat = r.cat - 1]}
    ELSE IF r.plt > 0 THEN {[r EXCEPT !.plt = r.plt - 1]}
    ELSE IF r.ps = 0
    THEN {[r EXCEPT !.ps = 8, !.tm = Digits3(StartTime), !.xpage = 0,
                    !.xb = StartX, !.cat = 0]}
    ELSE {[r EXCEPT !.ps = 8, !.xb = StartX + k * XStep, !.cat = 0]
            : k \in 0..MaxMoves}

TimeSteps(r) ==
    {r.tm} \cup (IF time_of(r) > StartTime - MaxTicks
                 THEN {Digits3(time_of(r) - 1)} ELSE {})

XSteps(r, input) ==
    {r.xb}
    \cup (IF Pressed(input, RightButton) /\ r.xb < StartX + MaxMoves * XStep
          THEN {r.xb + XStep} ELSE {})
    \cup (IF Pressed(input, LeftButton) /\ r.xb > StartX
          THEN {r.xb - XStep} ELSE {})

\* enemies, pits and pipes lie right of the start position
PlayFrames(r, input) ==
    {[r EXCEPT !.tm = t, !.xb = x] : t \in TimeSteps(r), x \in XSteps(r, input)}
    \cup (IF r.xb > StartX
          THEN {[r EXCEPT !.ps = DyingState], [r EXCEPT !.yv = 2]}
               \cup {[r EXCEPT !.ps = 3, !.cat = c] : c \in AreaTimers}
          ELSE {})
    \cup (IF r.xb >= StartX + FlagMoves * XStep
          THEN (IF r.stage = 3
                THEN {[r EXCEPT !.mode = EndOfWorldMode, !.en[1] = 45]}
                ELSE {[r EXCEPT !.fl = FlagFloatState, !.en[5] = 49]})
          ELSE {})

DyingFrames(r) == {r, [r EXCEPT !.ps = DeadState]}

DeadFrames(r) ==
    IF r.life = 0
    THEN {[SetLevel(r, <<0, 0, 0>>) EXCEPT
              !.life = GameOverLives, !.mode = 0, !.ps = 8, !.yv = 1,
              !.tm = <<0, 0, 0>>, !.xpage = 0, !.xb = StartX]}
    ELSE {[BeginLoad(r) EXCEPT !.life = r.life - 1]}

StageOverFrames(r) == {r} \cup {SetLevel(BeginLoad(r), l) : l \in Levels}

WorldOverFrames(r) ==
    {[r EXCEPT !.tm = t] : t \in TimeSteps(r)}
    \cup {SetLevel(BeginLoad(r), l) : l \in Levels}

\* the snapshots one frame_advance(input) may leave
frame_advance(r, input) ==
    IF r.mode = 0 THEN TitleFrames(r, input)
    ELSE IF r.mode = EndOfWorldMode THEN WorldOverFrames(r)
    ELSE IF is_dead(r) THEN DeadFrames(r)
    ELSE IF is_dying(r) THEN DyingFrames(r)
    ELSE IF is_stage_over(r) THEN StageOverFrames(r)
    ELSE IF is_busy(r) THEN BusyFrames(r)
    ELSE PlayFrames(r, input)

(***************************************************************************)
(* Lifecycle: __init__, reset and step, through the NESEnv hooks           *)
(***************************************************************************)
\* what step() stores before it hands the action to NESEnv.step
\* faulty variant: step() does not store the position
step_last_x_kept(r, old) == old

step_last_x(r, old) == x_position(r)

step_last_y(r, old) == y_position(r)

\* _will_reset: the tracker before the emulator is reset
will_reset_time_last == 0

\* faulty variant: _did_reset leaves the time tracker as _will_reset set it
did_reset_time_last_kept(r) == will_reset_time_last

\* _did_reset: the trackers taken from the snapshot after the reset
did_reset_time_last(r) == time_of(r)

did_reset_last_x(r) == x_position(r)

did_reset_last_y(r) == y_position(r)

\* history of the running call (in _skip_start_screen: of its start loop, then
\* of its idle loop): the operations on the emulator in order (the first
\* MaxLog of them), the bytes written, the snapshot _did_step was
\* entered with and the one the end-of-world skip was reached with
MaxLog == 6

NoEntry == <<>>

Diff(r, r2) == {f \in DOMAIN r : r[f] # r2[f]}

Logged(log, e) == IF Len(log) < MaxLog THEN Append(log, e) ELSE log

FrameEvent(input) == [op |-> "frame", input |-> input]

WriteEvent(r2, fields) == [op |-> "write", bytes |-> [f \in fields |-> r2[f]]]

\* the call wrote the bytes addrs, turning snapshot r into r2
Wrote(h, r, r2, addrs) ==
    LET fields == addrs \cup Diff(r, r2)
    IN  IF fields = {} THEN h
        ELSE [h EXCEPT !.log = Logged(@, WriteEvent(r2, fields)),
                       !.written = @ \cup fields]

\* the call advanced one frame
Framed(h, input) == [h EXCEPT !.log = Logged(@, FrameEvent(input))]

\* the call returned
Returned(h) ==
    [h EXCEPT !.tl = 0, !.first = FALSE, !.action = NoButton, !.log = <<>>,
              !.written = {}, !.entry = NoEntry, !.eow = NoEntry]

\* the history record between steps
NoStep(r, fresh) ==
    [x |-> x_position(r), y |-> y_position(r), tl |-> 0,
     action |-> NoButton, first |-> FALSE, fresh |-> fresh,
     log |-> <<>>, written |-> {}, entry |-> NoEntry, eow |-> NoEntry]

\* the state after line 78 of __init__: the emulator was reset to its power-on
\* snapshot (no backup exists yet) and _did_reset has run
Init ==
    /\ target \in Targets
    /\ ram = PowerOn
    /\ time_last = did_reset_time_last(PowerOn)
    /\ last_x = did_reset_last_x(PowerOn)
    /\ last_y = did_reset_last_y(PowerOn)
    /\ done = FALSE
    /\ backup = NoBackup
    /\ pc = "sss_press"
    /\ ref_time = 0
    /\ out = NoOut
    /\ pre = NoStep(PowerOn, FALSE)

\* _skip_start_screen, lines 308-309
SkipStartPress ==
    /\ pc = "sss_press"
    /\ ram' \in frame_advance(ram, StartButton)
    /\ pre' = Framed(pre, StartButton)
    /\ pc' = "sss_release"
    /\ UNCHANGED <<target, time_last, last_x, last_y, done, backup, ref_time, out>>

SkipStartRelease ==
    /\ pc = "sss_release"
    /\ ram' \in frame_advance(ram, NoButton)
    /\ pre' = Framed(pre, NoButton)
    /\ pc' = "sss_loop"
    /\ UNCHANGED <<target, time_last, last_x, last_y, done, backup, ref_time, out>>

\* faulty variant: the stage is not written in the loop
SkipStartLoopPressNoWrite ==
    /\ pc = "sss_loop"
    /\ time_of(ram) = 0
    /\ ram' \in frame_advance(ram, StartButton)
    /\ pre' = Framed(pre, StartButton)
    /\ pc' = "sss_loop_release"
    /\ UNCHANGED <<target, time_last, last_x, last_y, done, backup, ref_time, out>>

\* lines 311-316: the loop test, the press and the stage write
SkipStartLoopPress ==
    /\ pc = "sss_loop"
    /\ time_of(ram) = 0
    /\ \E r \in frame_advance(ram, StartButton) :
          IF is_single_stage_env
          THEN /\ ram' = write_stage(r)
               /\ pre' = Wrote(Framed(pre, StartButton), r, write_stage(r),
                               write_stage_addrs)
          ELSE /\ ram' = r
               /\ pre' = Framed(pre, StartButton)
    /\ pc' = "sss_loop_release"
    /\ UNCHANGED <<target, time_last, last_x, last_y, done, backup, ref_time, out>>

\* lines 317-319: the release and the pre-level timer
SkipStartLoopRelease ==
    /\ pc = "sss_loop_release"
    /\ \E r \in frame_advance(ram, NoButton) :
          /\ ram' = runout_prelevel_timer(r)
          /\ pre' = Wrote(Framed(pre, NoButton), r, runout_prelevel_timer(r),
                          runout_prelevel_timer_addrs)
    /\ pc' = "sss_loop"
    /\ UNCHANGED <<target, time_last, last_x, last_y, done, backup, ref_time, out>>

\* line 321, once the time is not 0
SkipStartLoopExit ==
    /\ pc = "sss_loop"
    /\ time_of(ram) # 0
    /\ time_last' = time_of(ram)
    /\ pre' = [pre EXCEPT !.log = <<>>]
    /\ pc' = "sss_idle"
    /\ UNCHANGED <<ram, target, last_x, last_y, done, backup, ref_time, out>>

\* lines 323-325
SkipStartIdlePress ==
    /\ pc = "sss_idle"
    /\ time_of(ram) >= time_last
    /\ time_last' = time_of(ram)
    /\ ram' \in frame_advance(ram, StartButton)
    /\ pre' = Framed(pre, StartButton)
    /\ pc' = "sss_idle_release"
    /\ UNCHANGED <<target, last_x, last_y, done, backup, ref_time, out>>

\* line 326
SkipStartIdleRelease ==
    /\ pc = "sss_idle_release"
    /\ ram' \in frame_advance(ram, NoButton)
    /\ pre' = Framed(pre, NoButton)
    /\ pc' = "sss_idle"
    /\ UNCHANGED <<target, time_last, last_x, last_y, done, backup, ref_time, out>>

\* the idle loop ends; __init__ line 82 saves the backup
SkipStartDone ==
    /\ pc = "sss_idle"
    /\ time_of(ram) < time_last
    /\ backup' = ram
    /\ pre' = Returned(pre)
    /\ pc' = "ready"
    /\ UNCHANGED <<ram, target, time_last, last_x, last_y, done, ref_time, out>>

\* reset() up to the emulator's reset: _will_reset
WillReset ==
    /\ pc \in {"ready", "done"}
    /\ time_last' = will_reset_time_last
    /\ pc' = "reset"
    /\ UNCHANGED <<ram, target, last_x, last_y, done, backup, ref_time, out, pre>>

\* reset() from there: NESEnv restores the backup, _did_reset
DidReset ==
    /\ pc = "reset"
    /\ ram' = backup
    /\ time_last' = did_reset_time_last(backup)
    /\ last_x' = did_reset_last_x(backup)
    /\ last_y' = did_reset_last_y(backup)
    /\ done' = FALSE
    /\ pc' = "ready"
    /\ out' = NoOut
    /\ pre' = NoStep(backup, TRUE)
    /\ UNCHANGED <<target, backup, ref_time>>

Reset == WillReset \/ DidReset

\* step(action), lines 457-459, up to the frame NESEnv.step advances;
\* frames are the snapshots that frame may leave
StepWith(action, frames) ==
    /\ pc = "ready"
    /\ ~done
    /\ last_x' = step_last_x(ram, last_x)
    /\ last_y' = step_last_y(ram, last_y)
    /\ pre' = [NoStep(ram, FALSE) EXCEPT !.action = action, !.first = pre.fresh]
    /\ ram' \in frames
    /\ pc' = "stepped"
    /\ UNCHANGED <<target, time_last, done, backup, ref_time, out>>

Step(action) == StepWith(action, frame_advance(ram, action))

\* step(action) in a done environment: lines 457-458 store the position, then
\* NESEnv.step refuses the call (it raises) before any frame is advanced
StepRefused ==
    /\ pc = "done"
    /\ done
    /\ last_x' = step_last_x(ram, last_x)
    /\ last_y' = step_last_y(ram, last_y)
    /\ UNCHANGED <<ram, target, time_last, done, backup, pc, ref_time, out, pre>>

\* NESEnv.step after the frame: it calls _get_reward, _get_terminated and
\* _get_info on the snapshot the frame left and then _did_step with its done
\* flag; truncation is decided outside this class
StepEval ==
    /\ pc = "stepped"
    /\ \E truncated \in BOOLEAN :
          /\ out' = [x_reward      |-> x_reward(ram, last_x),
                     time_penalty  |-> time_penalty(ram, time_last),
                     death_penalty |-> death_penalty(ram),
                     reward        |-> get_reward(ram, last_x, time_last),
                     terminated    |-> get_terminated(ram),
                     truncated     |-> truncated,
                     info          |-> get_info(ram, last_x, last_y)]
          /\ done' = (get_terminated(ram) \/ truncated)
    /\ time_last' = time_last_after(ram, time_last)
    /\ pre' = [pre EXCEPT !.tl = time_last, !.entry = ram]
    /\ pc' = "did_step"
    /\ UNCHANGED <<ram, target, last_x, last_y, backup, ref_time>>

\* faulty variant: the skips run although a reset is pending
DidStepWillResetSkips ==
    /\ pc = "did_step"
    /\ done
    /\ ram' \in frame_advance(skip_change_area(ram), NoButton)
    /\ pc' = "done"
    /\ out' = NoOut
    /\ pre' = Returned(pre)
    /\ UNCHANGED <<target, time_last, last_x, last_y, done, backup, ref_time>>

\* _did_step(will_reset=True), lines 402-403
DidStepWillReset ==
    /\ pc = "did_step"
    /\ done
    /\ pc' = "done"
    /\ out' = NoOut
    /\ pre' = Returned(pre)
    /\ UNCHANGED <<ram, target, time_last, last_x, last_y, done, backup, ref_time>>

\* lines 405-406: _kill_mario
DidStepKill ==
    /\ pc = "did_step"
    /\ ~done
    /\ is_dying(ram)
    /\ ram' \in frame_advance(kill_mario_write(ram), NoButton)
    /\ pre' = Framed(Wrote(pre, ram, kill_mario_write(ram), kill_mario_addrs),
                     NoButton)
    /\ pc' = "end_of_world"
    /\ UNCHANGED <<target, time_last, last_x, last_y, done, backup, ref_time, out>>

DidStepNoKill ==
    /\ pc = "did_step"
    /\ ~done
    /\ ~is_dying(ram)
    /\ pc' = "end_of_world"
    /\ UNCHANGED <<ram, target, time_last, last_x, last_y, done, backup, ref_time, out, pre>>

\* lines 408-409 and 330-332
SkipEndOfWorldEnter ==
    /\ pc = "end_of_world"
    /\ ~is_single_stage_env
    /\ is_world_over(ram)
    /\ ref_time' = time_of(ram)
    /\ pre' = [pre EXCEPT !.eow = ram]
    /\ pc' = "end_of_world_loop"
    /\ UNCHANGED <<ram, target, time_last, last_x, last_y, done, backup, out>>

\* faulty variant: the end-of-world skip is left out
SkipEndOfWorldNever ==
    /\ pc = "end_of_world"
    /\ pre' = [pre EXCEPT !.eow = ram]
    /\ pc' = "change_area"
    /\ UNCHANGED <<ram, target, time_last, last_x, last_y, done, backup, ref_time, out>>

SkipEndOfWorldNot ==
    /\ pc = "end_of_world"
    /\ (is_single_stage_env \/ ~is_world_over(ram))
    /\ pre' = [pre EXCEPT !.eow = ram]
    /\ pc' = "change_area"
    /\ UNCHANGED <<ram, target, time_last, last_x, last_y, done, backup, ref_time, out>>

\* lines 334-336
SkipEndOfWorldFrame ==
    /\ pc = "end_of_world_loop"
    /\ time_of(ram) = ref_time
    /\ ram' \in frame_advance(ram, NoButton)
    /\ pre' = Framed(pre, NoButton)
    /\ UNCHANGED <<target, time_last, last_x, last_y, done, backup, pc, ref_time, out>>

SkipEndOfWorldExit ==
    /\ pc = "end_of_world_loop"
    /\ time_of(ram) # ref_time
    /\ ref_time' = 0
    /\ pc' = "change_area"
    /\ UNCHANGED <<ram, target, time_last, last_x, last_y, done, backup, out, pre>>

\* line 411
SkipChangeArea ==
    /\ pc = "change_area"
    /\ ram' = skip_change_area(ram)
    /\ pre' = Wrote(pre, ram, skip_change_area(ram), skip_change_area_addrs(ram))
    /\ pc' = "occupied"
    /\ UNCHANGED <<target, time_last, last_x, last_y, done, backup, ref_time, out>>

\* lines 301-303
SkipOccupiedFrame ==
    /\ pc = "occupied"
    /\ (is_busy(ram) \/ is_world_over(ram))
    /\ ram' \in frame_advance(runout_prelevel_timer(ram), NoButton)
    /\ pre' = Framed(Wrote(pre, ram, runout_prelevel_timer(ram),
                           runout_prelevel_timer_addrs), NoButton)
    /\ UNCHANGED <<target, time_last, last_x, last_y, done, backup, pc, ref_time, out>>

\* faulty variant: the loop gives up after one iteration
SkipOccupiedExitCapped ==
    /\ pc = "occupied"
    /\ (~(is_busy(ram) \/ is_world_over(ram)) \/ "plt" \in pre.written)
    /\ pc' = "ready"
    /\ out' = NoOut
    /\ pre' = Returned(pre)
    /\ UNCHANGED <<ram, target, time_last, last_x, last_y, done, backup, ref_time>>

SkipOccupiedExit ==
    /\ pc = "occupied"
    /\ ~(is_busy(ram) \/ is_world_over(ram))
    /\ pc' = "ready"
    /\ out' = NoOut
    /\ pre' = Returned(pre)
    /\ UNCHANGED <<ram, target, time_last, last_x, last_y, done, backup, ref_time>>

Next ==
    \/ SkipStartPress
    \/ SkipStartRelease
    \/ SkipStartLoopPress
    \/ SkipStartLoopRelease
    \/ SkipStartLoopExit
    \/ SkipStartIdlePress
    \/ SkipStartIdleRelease
    \/ SkipStartDone
    \/ Reset
    \/ \E action \in Actions : Step(action)
    \/ StepRefused
    \/ StepEval
    \/ DidStepWillReset
    \/ DidStepKill
    \/ DidStepNoKill
    \/ SkipEndOfWorldEnter
    \/ SkipEndOfWorldNot
    \/ SkipEndOfWorldFrame
    \/ SkipEndOfWorldExit
    \/ SkipChangeArea
    \/ SkipOccupiedFrame
    \/ SkipOccupiedExit

Spec == Init /\ [][Next]_vars

(***************************************************************************)
(* The evaluation functions on their own: step() and the evaluation that   *)
(* follows its frame, from any snapshot and any trackers, with a frame     *)
(* that may move the player anywhere.                                      *)
(***************************************************************************)
FnEnemies == {NoEnemies, <<0, 0, 0, 0, 49>>, <<45, 0, 0, 0, 0>>}

FnXBytes == {0, 250, 255}

FnTimes == {<<0, 0, 0>>, <<3, 9, 9>>, <<4, 0, 0>>}

\* every combination of the bytes termination reads
FnFlagSnapshots ==
    {[PowerOn EXCEPT !.ps = p, !.yv = v, !.life = l, !.mode = m, !.en = e, !.fl = f]
        : p \in {0, 6, 8, 11}, v \in 0..2, l \in {StartLives, GameOverLives},
          m \in {1, 2}, e \in FnEnemies, f \in {0, FlagFloatState}}

\* every combination of the bytes the reward reads
FnRewardSnapshots ==
    {[PowerOn EXCEPT !.ps = p, !.yv = v, !.xpage = g, !.xb = b, !.tm = t, !.mode = 1]
        : p \in {0, 6, 8, 11}, v \in 0..2, g \in 0..1, b \in FnXBytes, t \in FnTimes}

FnSnapshots == FnFlagSnapshots \cup FnRewardSnapshots

\* a frame that leaves the player at any position
FnFrames(r) ==
    {[r EXCEPT !.xpage = g, !.xb = b, !.yv = v] : g \in 0..1, b \in FnXBytes, v \in 0..2}

InitFn ==
    /\ target \in {NoTarget, <<1, 2, 3>>}
    /\ ram \in FnSnapshots
    /\ time_last \in {0, 400, 999}
    /\ last_x \in {0, 255}
    /\ last_y = did_reset_last_y(ram)
    /\ done = FALSE
    /\ backup = ram
    /\ pc = "ready"
    /\ ref_time = 0
    /\ out = NoOut
    /\ pre = NoStep(ram, TRUE)

FnStep == StepWith(NoButton, FnFrames(ram))

NextFn ==
    \/ FnStep
    \/ StepEval

SpecFn == InitFn /\ [][NextFn]_vars

(***************************************************************************)
(* The memory decoder on its own: every property decoded from snapshots    *)
(* that range over the bytes it reads.                                     *)
(***************************************************************************)
DecBytes == 0..255

\* counter bytes: the decimal digits and one byte that is not a digit
DecDigits == 0..10

DecScoreDigits == {0, 1, 9}

\* score bytes: digits, or digits with one byte that is not a digit
DecScores ==
    [1..6 -> DecScoreDigits]
    \cup {[d EXCEPT ![i] = 10] : d \in [1..6 -> {9}], i \in 1..6}

DecEnemyIds == {0, 6, 45, 49}

\* the snapshots that differ from r in the bytes one decoder reads
DecPositionSnapshots(r) ==
    {[r EXCEPT !.yv = v, !.ypix = p] : v \in DecBytes, p \in DecBytes}

DecCounterSnapshots(r) ==
    {[r EXCEPT !.tm = <<a, b, c>>] : a \in DecDigits, b \in DecDigits, c \in DecDigits}
    \cup {[r EXCEPT !.co = <<a, b>>] : a \in DecDigits, b \in DecDigits}
    \cup {[r EXCEPT !.sc = d] : d \in DecScores}

DecEnemySnapshots(r) ==
    {[r EXCEPT !.en = e, !.fl = f, !.mode = 1]
        : e \in [1..5 -> DecEnemyIds], f \in {0, FlagFloatState}}

DecSnapshots(r) ==
    DecPositionSnapshots(r) \cup DecCounterSnapshots(r) \cup DecEnemySnapshots(r)

InitDec ==
    /\ target = NoTarget
    /\ ram \in DecSnapshots(PowerOn)
    /\ time_last = 0
    /\ last_x = did_reset_last_x(ram)
    /\ last_y = did_reset_last_y(ram)
    /\ done = FALSE
    /\ backup = NoBackup
    /\ pc = "decode"
    /\ ref_time = 0
    /\ out = NoOut
    /\ pre = NoStep(ram, FALSE)

\* the properties are read
Decode ==
    /\ pc = "decode"
    /\ out' = game_state(ram)
    /\ pc' = "decoded"
    /\ UNCHANGED <<ram, target, time_last, last_x, last_y, done, backup, ref_time, pre>>

NextDec == Decode

SpecDec == InitDec /\ [][NextDec]_vars

(***************************************************************************)
(* Properties                                                              *)
(***************************************************************************)
\* the snapshot the running step was evaluated on is still in ram
Evaluated == pc = "did_step"

Abs(n) == IF n < 0 THEN 0 - n ELSE n

Min(a, b) == IF a < b THEN a ELSE b

\* some enemy slot 0x0016..0x001A holds Bowser (0x2D) or the flagpole (0x31)
StageOverEnemyPresent(r) == \E i \in 1..5 : r.en[i] = 45 \/ r.en[i] = 49

\* C1: in single-stage mode the step is terminated exactly when the player
\* state is 0x0B, or the viewport byte is above 1, or the player state is
\* 0x06, or the game mode is 2, or a stage-over enemy is present with the
\* float state 3; the lives byte does not matter.
C1_SingleStageTerminated ==
    (Evaluated /\ target # NoTarget) =>
        (out.terminated <=>
            (\/ ram.ps = 11
             \/ ram.yv > 1
             \/ ram.ps = 6
             \/ ram.mode = 2
             \/ (StageOverEnemyPresent(ram) /\ ram.fl = 3)))

C1_Witness ==
    /\ Evaluated
    /\ target # NoTarget
    /\ out.terminated
    /\ ram.yv > 1
    /\ ram.ps = 8
    /\ ram.mode = 1
    /\ ram.life # 255

\* C2: in full-game mode the step is terminated exactly when the lives byte
\* is 0xFF, whatever the player state, the viewport and the flag say.
C2_FullGameTerminated ==
    (Evaluated /\ target = NoTarget) => (out.terminated <=> ram.life = 255)

C2_Witness ==
    /\ Evaluated
    /\ target = NoTarget
    /\ ~out.terminated
    /\ ram.ps = 6
    /\ ram.yv > 1
    /\ ram.mode = 2
    /\ ram.life # 255

\* C3: the x component of the reward is the position delta when the delta is
\* within [-5, 5] and 0 when it is outside.
C3_XReward ==
    Evaluated =>
        LET delta == (ram.xpage * 256 + ram.xb) - last_x
        IN  out.x_reward = IF delta >= -5 /\ delta <= 5 THEN delta ELSE 0

C3_Witness ==
    /\ Evaluated
    /\ (ram.xpage * 256 + ram.xb) - last_x = 6
    /\ out.x_reward = 0

\* C4: the time penalty is min(0, time - previous time), never positive, and
\* after the evaluation _time_last is the time of the snapshot, also when a
\* positive delta was suppressed.
C4_TimePenalty ==
    Evaluated =>
        /\ out.time_penalty = Min(0, time_of(ram) - pre.tl)
        /\ out.time_penalty <= 0
        /\ time_last = time_of(ram)

C4_Witness ==
    /\ Evaluated
    /\ time_of(ram) > pre.tl
    /\ out.time_penalty = 0
    /\ time_last = time_of(ram)

\* C5: the death component is -25 when the player is dying (state 0x0B or
\* viewport above 1) or dead (state 0x06) and 0 otherwise, and the reward is
\* the sum of the x, time and death components.
C5_DeathPenaltyAndSum ==
    Evaluated =>
        /\ out.death_penalty =
              (IF ram.ps = 11 \/ ram.yv > 1 \/ ram.ps = 6 THEN -25 ELSE 0)
        /\ out.reward = out.x_reward + out.time_penalty + out.death_penalty

C5_Witness ==
    /\ Evaluated
    /\ ram.ps = 8
    /\ ram.yv = 2
    /\ out.death_penalty = -25
    /\ out.x_reward = 5
    /\ out.time_penalty = -1
    /\ out.reward = -21

\* C6: _get_reward does not clamp to reward_range: when the player is dying or
\* dead at the evaluation the reward is at most -20, below the declared lower
\* bound of -15.
C6_RewardBelowRange ==
    (Evaluated /\ (is_dying(ram) \/ is_dead(ram))) =>
        /\ out.reward <= -20
        /\ out.reward < reward_range[1]

C6_Witness ==
    /\ Evaluated
    /\ is_dead(ram)
    /\ out.reward = -20
    /\ reward_range[1] = -15

\* C7: in single-stage mode, the first step after a reset, taken with the
\* no-op action, reports the target world and stage and no flag.
C7_FirstStepInfo ==
    (Evaluated /\ target # NoTarget /\ pre.first /\ pre.action = NoButton) =>
        /\ out.info.world = target[1]
        /\ out.info.stage = target[2]
        /\ out.info.flag_get = FALSE

C7_Witness ==
    /\ Evaluated
    /\ target = <<1, 2, 3>>
    /\ pre.first
    /\ pre.action = NoButton
    /\ out.info.world = 1
    /\ out.info.stage = 2
    /\ ~out.info.flag_get
    /\ backup # NoBackup

\* C8: step() stores the positions of the snapshot before the frame; x_speed
\* and y_speed are the plain differences to them; x_speed is the x component
\* of the reward exactly when its magnitude is at most 5, and the x component
\* is 0 otherwise.
C8_SpeedsUnguarded ==
    Evaluated =>
        /\ last_x = pre.x
        /\ last_y = pre.y
        /\ out.info.x_speed = x_position(ram) - pre.x
        /\ out.info.y_speed = y_position(ram) - pre.y
        /\ (Abs(out.info.x_speed) <= 5 => out.x_reward = out.info.x_speed)
        /\ (Abs(out.info.x_speed) > 5 =>
               out.x_reward = 0 /\ out.x_reward # out.info.x_speed)

C8_Witness ==
    /\ Evaluated
    /\ out.info.x_speed = -250
    /\ out.x_reward = 0
    /\ out.info.y_speed # 0
    /\ last_x = 250

\* C10: in every snapshot the decoded world is in 1..8, the decoded stage in
\* 1..4 and the decoded area in 1..5.
C10_LevelRanges ==
    /\ world_of(ram) \in 1..8
    /\ stage_of(ram) \in 1..4
    /\ area_of(ram) \in 1..5

C10_Witness ==
    /\ pc = "ready"
    /\ target = <<7, 4, 5>>
    /\ world_of(ram) = 7
    /\ stage_of(ram) = 4
    /\ area_of(ram) = 5

\* C11: the vertical position is 255 + (255 - p) for a viewport byte below 1,
\* -p - 1 for one above 1 and 255 - p for 1, for all bytes v and p, so that
\* (0, 10) gives 500, (2, 10) gives -11 and (1, 10) gives 245; it lies in
\* [-256, 510].
C11_YPosition ==
    pc = "decoded" =>
        LET v == ram.yv
            p == ram.ypix
        IN  /\ (v = 0 => out.y_position = 510 - p)
            /\ (v >= 2 => out.y_position = (0 - p) - 1)
            /\ (v = 1 => out.y_position = 255 - p)
            /\ (v = 0 /\ p = 10 => out.y_position = 500)
            /\ (v = 2 /\ p = 10 => out.y_position = -11)
            /\ (v = 1 /\ p = 10 => out.y_position = 245)
            /\ out.y_position >= -256
            /\ out.y_position <= 510

C11_Witness ==
    /\ pc = "decoded"
    /\ ram.yv = 5
    /\ ram.ypix = 255
    /\ out.y_position = -256

AllDigits(bytes) == \A i \in 1..Len(bytes) : bytes[i] <= 9

\* C12: when every byte of a counter is a digit 0..9 the decoded value is the
\* positional sum with the most significant digit at the lowest address:
\* time in 0..999, coins in 0..99, score in 0..999999.
C12_Counters ==
    pc = "decoded" =>
        /\ AllDigits(ram.tm) =>
              /\ out.time = 100 * ram.tm[1] + 10 * ram.tm[2] + ram.tm[3]
              /\ out.time \in 0..999
        /\ AllDigits(ram.co) =>
              /\ out.coins = 10 * ram.co[1] + ram.co[2]
              /\ out.coins \in 0..99
        /\ AllDigits(ram.sc) =>
              /\ out.score = 100000 * ram.sc[1] + 10000 * ram.sc[2] + 1000 * ram.sc[3]
                             + 100 * ram.sc[4] + 10 * ram.sc[5] + ram.sc[6]
              /\ out.score \in 0..999999

C12_Witness ==
    /\ pc = "decoded"
    /\ ram.tm = <<3, 9, 8>>
    /\ out.time = 398

\* C13: the stage is over exactly when one of the five enemy slots holds
\* Bowser (0x2D) or the flagpole (0x31) and the float state is 3, whichever
\* slot it is; a float state of 3 with neither present gives false.
C13_StageOver ==
    pc = "decoded" =>
        (out.is_stage_over <=>
            ((\E i \in 1..5 : ram.en[i] = 45 \/ ram.en[i] = 49) /\ ram.fl = 3))

C13_Witness ==
    /\ pc = "decoded"
    /\ ram.en = <<6, 0, 49, 0, 0>>
    /\ ram.fl = 3
    /\ out.is_stage_over

\* the bytes that make the busy-state skip go on
Occupied(r) == r.ps \in {0, 1, 2, 3, 4, 5, 7} \/ r.mode = 2

NoOpFrame == [op |-> "frame", input |-> 0]

WriteOf(bytes) == [op |-> "write", bytes |-> bytes]

\* C14: the skip loops have no iteration bound: the busy-state skip goes on
\* as long as the player state is busy or the game mode is end-of-world, and
\* the end-of-world skip as long as the decoded time is the one read at its
\* entry; neither is left any other way.
C14_SkipLoopsUnbounded ==
    [][/\ (pc = "occupied" /\ Occupied(ram)) => pc' = "occupied"
       /\ (pc = "end_of_world_loop" /\ time_of(ram) = time_of(pre.eow))
             => pc' = "end_of_world_loop"]_vars

C14_Witness ==
    /\ pc = "occupied"
    /\ Occupied(ram)
    /\ Len(pre.log) = MaxLog
    /\ pre.log[MaxLog] = NoOpFrame
    /\ pre.log[MaxLog - 1] = WriteOf([plt |-> 0])
    /\ pre.log[MaxLog - 2] = NoOpFrame
    /\ pre.log[MaxLog - 3] = WriteOf([plt |-> 0])

StartPcs ==
    {"sss_press", "sss_release", "sss_loop", "sss_loop_release", "sss_idle",
     "sss_idle_release"}

\* C15: the core writes only the player state 0x000E, the change-area timer
\* 0x06DE, the pre-level timer 0x07A0 and the level bytes 0x075F, 0x075C,
\* 0x0760; the level bytes are never written in full-game mode and, in
\* single-stage mode, only inside the start-of-episode sequence.
C15_CoreWrites ==
    /\ pre.written \subseteq {"ps", "cat", "plt", "world", "stage", "area"}
    /\ target = NoTarget => pre.written \cap {"world", "stage", "area"} = {}
    /\ pc \notin StartPcs => pre.written \cap {"world", "stage", "area"} = {}
    /\ pc \in StartPcs => pre.written \cap {"ps", "cat"} = {}

C15_Witness ==
    /\ target # NoTarget
    /\ pc = "occupied"
    /\ pre.written = {"cat", "plt"}

\* C16: _did_step with a reset pending writes no byte, advances no frame and
\* leaves _time_last and the previous-position trackers as they are, also when
\* Mario is dying, busy or the world is over.
C16_WillResetNoEffect ==
    [][(pc = "did_step" /\ done)
          => /\ ram' = ram
             /\ time_last' = time_last
             /\ last_x' = last_x
             /\ last_y' = last_y
             /\ pc' = "done"]_vars

C16_Witness ==
    /\ pc = "done"
    /\ target = NoTarget
    /\ ram.yv = 2
    /\ ram.ps = 8

AfterKill == {"end_of_world", "end_of_world_loop", "change_area", "occupied"}

\* C17: with no reset pending, if Mario is dying when post-processing is
\* entered the player state is set to 0x06 and exactly one no-op frame is
\* advanced before any other skip; if he is not, the core does not write the
\* player state.
C17_KillFirst ==
    pc \in AfterKill =>
        IF pre.entry.ps = 11 \/ pre.entry.yv > 1
        THEN /\ Len(pre.log) >= 2
             /\ pre.log[1] = WriteOf([ps |-> 6])
             /\ pre.log[2] = NoOpFrame
             /\ pc = "end_of_world" => Len(pre.log) = 2
        ELSE /\ "ps" \notin pre.written
             /\ pc = "end_of_world" => pre.log = <<>>

C17_Witness ==
    /\ pc = "end_of_world"
    /\ pre.entry.ps = 8
    /\ pre.entry.yv = 2
    /\ pre.log = <<WriteOf([ps |-> 6]), NoOpFrame>>

\* the frames the end-of-world skip advanced, counted where it has ended
EndOfWorldFrames ==
    LET k == IF pre.log # <<>> /\ pre.log[1].op = "write" THEN 2 ELSE 0
    IN  {i \in 1..Len(pre.log) : i > k}

\* C18: the end-of-world skip comes before the area-change skip and the
\* busy-state skip; in full-game mode, reached with the world over, it
\* advances no-op frames (at least one) until the decoded time differs from
\* the one read at its entry; reached without, and in single-stage mode, it
\* advances no frame.
C18_EndOfWorldSkip ==
    /\ pc \in {"end_of_world", "end_of_world_loop", "change_area"}
          => pre.written \cap {"cat", "plt"} = {}
    /\ pc = "end_of_world_loop" => target = NoTarget /\ pre.eow.mode = 2
    /\ pc = "change_area" =>
          /\ \A i \in EndOfWorldFrames : pre.log[i] = NoOpFrame
          /\ target # NoTarget => EndOfWorldFrames = {}
          /\ pre.eow.mode # 2 => EndOfWorldFrames = {}
          /\ (target = NoTarget /\ pre.eow.mode = 2)
                => /\ EndOfWorldFrames # {}
                   /\ time_of(ram) # time_of(pre.eow)

C18_Witness ==
    /\ pc = "change_area"
    /\ target = NoTarget
    /\ pre.eow.mode = 2
    /\ pre.log = <<NoOpFrame, NoOpFrame>>
    /\ time_of(ram) # time_of(pre.eow)

CatWrites == {i \in 1..Len(pre.log) : pre.log[i] = WriteOf([cat |-> 1])}

PltWrites == {i \in 1..Len(pre.log) : pre.log[i] = WriteOf([plt |-> 0])}

\* C19: the area-change skip sets the timer 0x06DE to 1 exactly when it is
\* above 1 and below 255 and leaves it as it is for 0, 1 and 255; it advances
\* no frame, and runs once in a step, before the busy-state loop.
C19_ChangeArea ==
    /\ [][pc = "change_area"
             => /\ ram' = [ram EXCEPT !.cat = IF ram.cat \in 2..254 THEN 1 ELSE ram.cat]
                /\ pre'.log = IF ram.cat \in 2..254
                              THEN Logged(pre.log, WriteOf([cat |-> 1]))
                              ELSE pre.log
                /\ pc' = "occupied"]_vars
    /\ [](pc \in AfterKill
             => /\ Cardinality(CatWrites) <= 1
                /\ \A i \in CatWrites : \A j \in PltWrites : i < j)

C19_Witness ==
    /\ pc = "occupied"
    /\ pre.entry.cat = 254
    /\ ram.cat = 1
    /\ pre.log = <<WriteOf([cat |-> 1])>>

\* C20: post-processing with no reset pending returns only with the player
\* state outside {0, 1, 2, 3, 4, 5, 7} and the game mode not end-of-world;
\* each iteration of the busy-state loop writes 0 to the pre-level timer
\* 0x07A0 and then advances one no-op frame; the loop advances no frame when
\* neither condition holds.
C20_OccupiedSkip ==
    [][pc = "occupied"
          => IF Occupied(ram)
             THEN /\ pc' = "occupied"
                  /\ ram' \in frame_advance([ram EXCEPT !.plt = 0], 0)
                  /\ Len(pre.log) + 2 <= MaxLog
                        => pre'.log = pre.log \o <<WriteOf([plt |-> 0]), NoOpFrame>>
             ELSE /\ pc' = "ready"
                  /\ ram' = ram]_vars

C20_Witness ==
    /\ pc = "occupied"
    /\ ~Occupied(ram)
    /\ pre.entry.ps = 3
    /\ pre.log = <<WriteOf([cat |-> 1]), WriteOf([plt |-> 0]), NoOpFrame>>

StartFrame == [op |-> "frame", input |-> 8]

\* the level bytes of the configured target
TargetBytes ==
    [world |-> target[1] - 1, stage |-> target[2] - 1, area |-> target[3] - 1]

\* C21: the start-of-episode sequence presses and releases Start once, then,
\* for as long as the decoded time is 0, repeats: press Start; in single-stage
\* mode write the target's world-1, stage-1, area-1 to 0x075F, 0x075C, 0x0760
\* (in full-game mode write nothing); release Start; write 0 to the pre-level
\* timer. The loop is left only with a decoded time that is not 0.
C21_StartLoop ==
    /\ [](pc = "sss_press" => pre.log = <<>>)
    /\ [](pc = "sss_release" => pre.log = <<StartFrame>>)
    /\ [](pc \in {"sss_loop", "sss_loop_release"}
             => /\ Len(pre.log) >= 2
                /\ pre.log[1] = StartFrame
                /\ pre.log[2] = NoOpFrame)
    /\ [][pc = "sss_loop"
             => IF time_of(ram) = 0
                THEN /\ pc' = "sss_loop_release"
                     /\ \E r \in frame_advance(ram, 8) :
                           ram' = IF target # NoTarget
                                  THEN [r EXCEPT !.world = target[1] - 1,
                                                 !.stage = target[2] - 1,
                                                 !.area = target[3] - 1]
                                  ELSE r
                     /\ pre'.log = IF target # NoTarget
                                   THEN Logged(Logged(pre.log, StartFrame),
                                               WriteOf(TargetBytes))
                                   ELSE Logged(pre.log, StartFrame)
                ELSE /\ pc' = "sss_idle"
                     /\ ram' = ram]_vars
    /\ [][pc = "sss_loop_release"
             => /\ pc' = "sss_loop"
                /\ \E r \in frame_advance(ram, 0) : ram' = [r EXCEPT !.plt = 0]
                /\ pre'.log = Logged(Logged(pre.log, NoOpFrame),
                                     WriteOf([plt |-> 0]))]_vars

C21_Witness ==
    /\ pc = "sss_loop"
    /\ target = <<7, 4, 5>>
    /\ time_of(ram) # 0
    /\ pre.log = <<StartFrame, NoOpFrame, StartFrame,
                   WriteOf([world |-> 6, stage |-> 3, area |-> 4]),
                   NoOpFrame, WriteOf([plt |-> 0])>>

\* C22: in the idle phase of the start-of-episode sequence only no-op frames
\* (input 0) are advanced, and the phase goes on exactly while the decoded time
\* equals the value observed before, ending as soon as it differs.
C22_IdleNoOpFrames ==
    /\ [](pc \in {"sss_idle", "sss_idle_release"}
             => \A i \in 1..Len(pre.log) : pre.log[i] = NoOpFrame)
    /\ [][pc = "sss_idle"
             => IF time_of(ram) = time_last
                THEN pc' = "sss_idle_release"
                ELSE pc' = "ready"]_vars

\* C23: when the start-of-episode sequence finishes, _time_last equals the
\* decoded time of the snapshot it finishes with.
C23_BaselineAtFinish ==
    [][(pc = "sss_idle" /\ pc' = "ready") => time_last' = time_of(ram')]_vars

\* C24: a reset sets _time_last to 0 before the emulator is reset and, after
\* it, sets _time_last to the decoded time and the previous x and y to the
\* decoded position of the restored snapshot; a reward evaluated on that
\* snapshot has x component 0 and time penalty 0, and the time penalty of the
\* first step after a reset is measured against the time after the reset.
C24_ResetTrackers ==
    /\ [][(pc \in {"ready", "done"} /\ pc' = "reset")
             => (time_last' = 0 /\ ram' = ram)]_vars
    /\ [](pc = "reset" => time_last = 0)
    /\ [][pc = "reset"
             => /\ ram' = backup
                /\ time_last' = time_of(ram')
                /\ last_x' = x_position(ram')
                /\ last_y' = y_position(ram')
                /\ pc' = "ready"]_vars
    /\ []((pc = "ready" /\ pre.fresh)
             => /\ x_position(ram) - last_x = 0
                /\ time_of(ram) - time_last = 0)
    /\ []((pc = "did_step" /\ pre.first)
             => /\ pre.tl = time_of(backup)
                /\ out.time_penalty = Min(0, time_of(ram) - time_of(backup)))

C24_Witness ==
    /\ pc = "did_step"
    /\ pre.first
    /\ time_of(backup) = 400
    /\ time_of(ram) = 399
    /\ out.time_penalty = -1

\* C25: for every snapshot and every value of the trackers the reward is at
\* most 5 (x component at most 5, time penalty and death penalty at most 0),
\* so the declared upper bound 15 is never exceeded; below, the reward goes
\* as far as -5 - 999 - 25.
C25_RewardUpperBound ==
    Evaluated =>
        /\ out.x_reward <= 5
        /\ out.time_penalty <= 0
        /\ out.death_penalty <= 0
        /\ out.reward <= 5
        /\ out.reward <= reward_range[2]

C25_Witness ==
    /\ Evaluated
    /\ reward_range[2] = 15
    /\ out.x_reward = 5
    /\ out.time_penalty = 0
    /\ out.death_penalty = 0
    /\ out.reward = 5

====
